---- MODULE Spec2Model ----
(***************************************************************************)
(* The GTPv2-C information element writers of cp/gtpv2c_set_ie.c.          *)
(*                                                                         *)
(* The message buffer is modelled byte by byte.  Offsets are counted from  *)
(* the first byte of the gtpv2c_header; &header->teid_u is offset          *)
(* GTPC_SIZE.  mem extends past the capacity of the buffer: the bytes      *)
(* from GTPC_SIZE + MAX_GTPV2C_LENGTH on are the memory that follows the   *)
(* buffer, which a store made before (or without) a capacity check can     *)
(* reach.                                                                  *)
(***************************************************************************)
EXTENDS Integers, Sequences, FiniteSets, TLC

VARIABLES
    host,       \* byte order of the machine: "le" or "be"
    mem,        \* the memory holding the header and the IEs, one byte per offset
    outcome,    \* "ok", or "panic" once rte_panic has ended the process
    initLen,    \* header.gtpc.length as the caller initialised it
    ies,        \* the IE records written so far: [off, body] per record
    group,      \* offset of the Bearer Context IE the caller is filling, or NoIe
    children,   \* record sizes of the IEs written after group was created
    pending,    \* value returned by the last child, not yet added to group; 0 if none
    last,       \* what the last encoder call did
    run         \* the call being executed statement by statement, if any

vars == <<host, mem, outcome, initLen, ies, group, children, pending, last, run>>

----------------------------------------------------------------------------
(* Bounds of the model.                                                    *)

\* Capacity of the message after the first GTPC_SIZE bytes, scaled down.
MAX_GTPV2C_LENGTH == 64
\* Number of packet filter slots of a bearer, scaled down.
MAX_FILTERS_PER_UE == 4
\* Number of encoder calls made on one message.
MaxIEs == 3

----------------------------------------------------------------------------
(* Layout of the structures the writers fill (gtpv2c.h, gtpv2c_ie.h), all  *)
(* packed.                                                                 *)

GTPC_SIZE == 4              \* sizeof(struct gtpc_t): flags, type, length
GTPC_LENGTH_OFF == 2        \* offsetof(struct gtpc_t, length)
IE_HEADER_SIZE == 4         \* sizeof(gtpv2c_ie): type, length, instance:4 spare:4
IE_LENGTH_OFF == 1
IE_INSTANCE_OFF == 3
CAUSE_HDR_SIZE == 2         \* sizeof(struct cause_ie_hdr_t)
CAUSE_SPARE1_OFF == 5       \* byte of cause_ie holding instance:4 spare_1:4
AR_PRIORITY_SIZE == 1       \* sizeof(ar_priority_ie)
FTEID_HDR_SIZE == 5         \* sizeof(struct fteid_ie_hdr_t): flags, teid_or_gre
IN_ADDR_SIZE == 4           \* sizeof(struct in_addr)
PAA_HDR_SIZE == 1           \* sizeof(struct paa_ie_hdr_t)
QOS_SEGMENT_SIZE == 21      \* sizeof(bqos->qos): qci and four 40-bit rates
BEARER_TFT_SIZE == 1        \* sizeof(bearer_tft_ie)
CREATE_PKT_FILTER_SIZE == 3 \* sizeof(create_pkt_filter)
COMPONENT_TYPE_SIZE == 1    \* sizeof(component->type)
NEXT_COMPONENT_SIZE == 1    \* sizeof(next_component), the member closing each variant
PORT_SIZE == 2              \* sizeof(uint16_t)
PROTO_SIZE == 1             \* sizeof(uint8_t)

\* sizeof(component->type_union.X) and offsetof(.., type_union.X.next_component)
SizeofIpv4 == 2 * IN_ADDR_SIZE + NEXT_COMPONENT_SIZE
SizeofProto == PROTO_SIZE + NEXT_COMPONENT_SIZE
SizeofPort == PORT_SIZE + NEXT_COMPONENT_SIZE
SizeofPortRange == 2 * PORT_SIZE + NEXT_COMPONENT_SIZE
NextOfIpv4 == COMPONENT_TYPE_SIZE + 2 * IN_ADDR_SIZE
NextOfProto == COMPONENT_TYPE_SIZE + PROTO_SIZE
NextOfPort == COMPONENT_TYPE_SIZE + PORT_SIZE
NextOfPortRange == COMPONENT_TYPE_SIZE + 2 * PORT_SIZE

\* Values of the enumerations.
IE_CAUSE == 2
IE_RECOVERY == 3
IE_EBI == 73
IE_PAA == 79
IE_BEARER_QOS == 80
IE_BEARER_TFT == 84
IE_FTEID == 87
IE_BEARER_CONTEXT == 93
IE_PROCEDURE_TRANSACTION_ID == 100
IE_APN_RESTRICTION == 127
IE_ALLOCATION_RETENTION_PRIORITY == 155
GTPV2C_CAUSE_REQUEST_ACCEPTED == 16
PDN_IP_TYPE_IPV4 == 1
TFT_OP_CREATE_NEW == 1
IPV4_REMOTE_ADDRESS == 16
IPV4_LOCAL_ADDRESS == 17
PROTOCOL_ID_NEXT_HEADER == 48
SINGLE_LOCAL_PORT == 64
LOCAL_PORT_RANGE == 65
SINGLE_REMOTE_PORT == 80
REMOTE_PORT_RANGE == 81
UINT16_MAX == 65535
\* A uint32_t is held as its two 16-bit halves, <<high, low>>.
UINT32_MAX == <<65535, 65535>>

\* -ENOENT in bearer->packet_filter_map[i]: the slot is empty.
ENOENT == 2

NoIe == -1

----------------------------------------------------------------------------
(* Memory.                                                                 *)

\* The largest Bearer TFT body: every slot resolved, every component present.
MaxFilterBytes ==
    CREATE_PKT_FILTER_SIZE + 2 * SizeofIpv4 + SizeofProto + 2 * SizeofPortRange
MemSize ==
    GTPC_SIZE + MAX_GTPV2C_LENGTH + IE_HEADER_SIZE + BEARER_TFT_SIZE
        + MAX_FILTERS_PER_UE * MaxFilterBytes + CAUSE_SPARE1_OFF + 1
Addr == 0 .. (MemSize - 1)
Byte == 0 .. 255

\* offset of &header->teid_u
TeidU == GTPC_SIZE
\* first offset past the capacity of the buffer
BufEnd == GTPC_SIZE + MAX_GTPV2C_LENGTH

RECURSIVE Pow2(_)
Pow2(n) == IF n = 0 THEN 1 ELSE 2 * Pow2(n - 1)

\* A machine: the memory, the offsets stored to, and whether rte_panic was called.
Machine(memory) == [mem |-> memory, wr |-> {}, panic |-> FALSE]

Store8(m, off, v) == [m EXCEPT !.mem[off] = v % 256, !.wr = @ \cup {off}]

\* A uint16_t / uint32_t object in memory has the byte order of the host.
Store16(m, off, v) ==
    IF host = "le"
    THEN Store8(Store8(m, off, v % 256), off + 1, (v \div 256) % 256)
    ELSE Store8(Store8(m, off, (v \div 256) % 256), off + 1, v % 256)

Load16(memory, off) ==
    IF host = "le"
    THEN memory[off] + 256 * memory[off + 1]
    ELSE 256 * memory[off] + memory[off + 1]

Store32(m, off, v) ==
    IF host = "le"
    THEN Store16(Store16(m, off, v[2]), off + 2, v[1])
    ELSE Store16(Store16(m, off, v[1]), off + 2, v[2])

\* v >> n for a uint32_t v and 0 <= n < 32
Shr32(v, n) ==
    IF n < 16
    THEN <<v[1] \div Pow2(n), (v[2] \div Pow2(n)) + ((v[1] % Pow2(n)) * Pow2(16 - n))>>
    ELSE <<0, v[1] \div Pow2(n - 16)>>

\* memcpy / struct assignment of bytes that are already a memory image
RECURSIVE StoreBytes(_, _, _)
StoreBytes(m, off, bytes) ==
    IF bytes = <<>> THEN m
    ELSE StoreBytes(Store8(m, off, Head(bytes)), off + 1, Tail(bytes))

\* htons and ntohs: swap the two bytes on a little-endian host
htons(v) ==
    IF host = "le" THEN ((v % 256) * 256) + ((v \div 256) % 256) ELSE v % 65536
ntohs(v) == htons(v)

\* ntohs(header->gtpc.length)
HeaderLength(memory) == ntohs(Load16(memory, GTPC_LENGTH_OFF))
\* ntohs(ie->length)
IeLength(memory, ie) == ntohs(Load16(memory, ie + IE_LENGTH_OFF))

Panic(m) == [m EXCEPT !.panic = TRUE]

----------------------------------------------------------------------------
(* The helpers: set_next_ie, set_next_unsized_ie, set_ie_size,             *)
(* get_ie_return.                                                          *)

\* IE_TYPE_PTR_FROM_GTPV2C_IE: the body starts right after the gtpv2c_ie
IeBody(ie) == ie + IE_HEADER_SIZE

\* ie->type = type
StoreIeType(m, ie, type) == Store8(m, ie, type)
\* ie->instance = instance, a 4-bit field sharing its byte with spare
StoreIeInstance(m, ie, instance) ==
    Store8(m, ie + IE_INSTANCE_OFF,
           ((m.mem[ie + IE_INSTANCE_OFF] \div 16) * 16) + (instance % 16))
\* ie->spare = 0
StoreIeSpare(m, ie) ==
    Store8(m, ie + IE_INSTANCE_OFF, m.mem[ie + IE_INSTANCE_OFF] % 16)
\* ie->length = htons(length)
StoreIeLength(m, ie, length) == Store16(m, ie + IE_LENGTH_OFF, htons(length))
\* Fault: the header length grows by the body only, the gtpv2c_ie left out.
AdvanceHeaderByBody(m, length) ==
    Store16(m, GTPC_LENGTH_OFF, htons(HeaderLength(m.mem) + length))

\* header->gtpc.length = htons(ntohs(header->gtpc.length) + length + sizeof(gtpv2c_ie))
AdvanceHeader(m, length) ==
    Store16(m, GTPC_LENGTH_OFF, htons(HeaderLength(m.mem) + length + IE_HEADER_SIZE))

\* Fault: the comparison made with >= in place of >.
OverflowsAtLimit(m, length) ==
    HeaderLength(m.mem) + length + IE_HEADER_SIZE >= MAX_GTPV2C_LENGTH

\* Fault: the comparison made without sizeof(gtpv2c_ie).
OverflowsWithoutIeHeader(m, length) ==
    HeaderLength(m.mem) + length > MAX_GTPV2C_LENGTH

\* ntohs(header->gtpc.length) + length + sizeof(gtpv2c_ie) > MAX_GTPV2C_LENGTH
Overflows(m, length) ==
    HeaderLength(m.mem) + length + IE_HEADER_SIZE > MAX_GTPV2C_LENGTH

\* the position of the next IE: &header->teid_u + ntohs(header->gtpc.length)
NextIe(m) == TeidU + HeaderLength(m.mem)

SetNextIe(m, type, instance, length) ==
    IF Overflows(m, length)
    THEN [m |-> Panic(m), ie |-> NextIe(m), length |-> length]
    ELSE [m |-> StoreIeSpare(
                    StoreIeLength(
                        StoreIeInstance(
                            StoreIeType(AdvanceHeader(m, length), NextIe(m), type),
                            NextIe(m), instance),
                        NextIe(m), length),
                    NextIe(m)),
          ie |-> NextIe(m),
          length |-> length]

\* Fault: the open also stores a length of 0.
SetNextUnsizedIeZeroLength(m, type, instance) ==
    [m |-> StoreIeSpare(
               StoreIeLength(
                   StoreIeInstance(StoreIeType(m, NextIe(m), type), NextIe(m), instance),
                   NextIe(m), 0),
               NextIe(m)),
     ie |-> NextIe(m)]

SetNextUnsizedIe(m, type, instance) ==
    [m |-> StoreIeSpare(
               StoreIeInstance(StoreIeType(m, NextIe(m), type), NextIe(m), instance),
               NextIe(m)),
     ie |-> NextIe(m)]

SetIeSize(m, ie, length) ==
    IF Overflows(m, length)
    THEN Panic(m)
    ELSE AdvanceHeader(StoreIeLength(m, ie, length), length)

\* Fault: the value returned is the body length alone.
GetIeReturnBodyOnly(m, ie) == IeLength(m.mem, ie) % 65536

\* sizeof(gtpv2c_ie) + ntohs(ie->length), as a uint16_t
GetIeReturn(m, ie) == (IE_HEADER_SIZE + IeLength(m.mem, ie)) % 65536

\* What an encoder built on set_next_ie hands back, r being what set_next_ie
\* gave and m the machine after the stores into the body: the IE, the length asked
\* of set_next_ie, the number of body bytes laid out, and the value returned
\* (none once rte_panic has ended the process).
Done(r, m, body) ==
    [m |-> m, ie |-> r.ie, size |-> r.length, body |-> body,
     ret |-> IF m.panic THEN 0 ELSE GetIeReturn(m, r.ie)]

----------------------------------------------------------------------------
(* The fixed-size encoders.  Each is its call of set_next_ie followed by   *)
(* the stores into the body, r being what set_next_ie gave.                *)

Uint8Body(r, value) ==
    IF r.m.panic THEN Done(r, r.m, 0)
    ELSE Done(r, Store8(r.m, IeBody(r.ie), value), 1)

SetUint8Ie(m, type, instance, value) ==
    Uint8Body(SetNextIe(m, type, instance, 1), value)

\* cause_source, bearer_context_error and pdn_connection_error are the three low
\* bits of the second byte; spare_0, the rest of it, is not written
ClearCauseFlags(m, b) == Store8(m, b + 1, (m.mem[b + 1] \div 8) * 8)
\* spare_1 lies in the part of cause_ie that follows cause_ie_hdr
ClearCauseSpare1(m, b) ==
    Store8(m, b + CAUSE_SPARE1_OFF, m.mem[b + CAUSE_SPARE1_OFF] % 16)

CauseBody(r) ==
    IF r.m.panic THEN Done(r, r.m, 0)
    ELSE Done(r, ClearCauseSpare1(
                  ClearCauseFlags(
                      Store8(r.m, IeBody(r.ie), GTPV2C_CAUSE_REQUEST_ACCEPTED),
                      IeBody(r.ie)),
                  IeBody(r.ie)),
              CAUSE_HDR_SIZE)

SetCauseAcceptedIeOp(m, instance) ==
    CauseBody(SetNextIe(m, IE_CAUSE, instance, CAUSE_HDR_SIZE))

\* preemption_vulnerability:1 spare1:1 priority_level:4 preemption_capability:1 spare2:1
ArpByte(arp) ==
    (arp.preemption_vulnerability % 2) + (4 * (arp.priority_level % 16))
        + (64 * (arp.preemption_capability % 2))

ArPriorityBody(r, bearer) ==
    IF r.m.panic THEN Done(r, r.m, 0)
    ELSE Done(r, Store8(r.m, IeBody(r.ie), ArpByte(bearer.qos.arp)),
              AR_PRIORITY_SIZE)

SetArPriorityIeOp(m, instance, bearer) ==
    ArPriorityBody(
        SetNextIe(m, IE_ALLOCATION_RETENTION_PRIORITY, instance, AR_PRIORITY_SIZE),
        bearer)

\* interface_type:6 v6:1 v4:1, then teid_or_gre, then the address
FteidBody(r, interface, ipv4, teid) ==
    IF r.m.panic THEN Done(r, r.m, 0)
    ELSE Done(r, StoreBytes(
                  Store32(Store8(r.m, IeBody(r.ie), 128 + (interface % 64)),
                          IeBody(r.ie) + 1, teid),
                  IeBody(r.ie) + FTEID_HDR_SIZE, ipv4),
              FTEID_HDR_SIZE + IN_ADDR_SIZE)

SetIpv4FteidIeOp(m, interface, instance, ipv4, teid) ==
    FteidBody(SetNextIe(m, IE_FTEID, instance, FTEID_HDR_SIZE + IN_ADDR_SIZE),
              interface, ipv4, teid)

\* pdn_type:3 spare:5, then the address
PaaBody(r, ipv4) ==
    IF r.m.panic THEN Done(r, r.m, 0)
    ELSE Done(r, StoreBytes(Store8(r.m, IeBody(r.ie), PDN_IP_TYPE_IPV4),
                         IeBody(r.ie) + PAA_HDR_SIZE, ipv4),
              PAA_HDR_SIZE + IN_ADDR_SIZE)

SetIpv4PaaIeOp(m, instance, ipv4) ==
    PaaBody(SetNextIe(m, IE_PAA, instance, PAA_HDR_SIZE + IN_ADDR_SIZE), ipv4)

SetApnRestrictionIeOp(m, instance, apn_restriction) ==
    SetUint8Ie(m, IE_APN_RESTRICTION, instance, apn_restriction)

\* ebi & 0xF0: the fprintf of "Invalid EBI used" is made
InvalidEbi(ebi) == (ebi \div 16) % 16 /= 0

\* Fault: only the low nibble of ebi is written.
SetEbiIeLowNibble(m, instance, ebi) == SetUint8Ie(m, IE_EBI, instance, ebi % 16)

SetEbiIeOp(m, instance, ebi) == SetUint8Ie(m, IE_EBI, instance, ebi)

SetPtiIeOp(m, instance, pti) ==
    SetUint8Ie(m, IE_PROCEDURE_TRANSACTION_ID, instance, pti)

BearerQosBody(r, bearer) ==
    IF r.m.panic THEN Done(r, r.m, 0)
    ELSE Done(r, StoreBytes(Store8(r.m, IeBody(r.ie), ArpByte(bearer.qos.arp)),
                         IeBody(r.ie) + AR_PRIORITY_SIZE, bearer.qos.qos),
              AR_PRIORITY_SIZE + QOS_SEGMENT_SIZE)

SetBearerQosIeOp(m, instance, bearer) ==
    BearerQosBody(
        SetNextIe(m, IE_BEARER_QOS, instance, AR_PRIORITY_SIZE + QOS_SEGMENT_SIZE),
        bearer)

SetRecoveryIeOp(m, instance) == SetUint8Ie(m, IE_RECOVERY, instance, 0)

\* the gtpv2c_ie returned is r.ie
BearerContextIe(r) == Done(r, r.m, 0)

CreateBearerContextIeOp(m, instance) ==
    BearerContextIe(SetNextIe(m, IE_BEARER_CONTEXT, instance, 0))

\* Fault: the length of the group is replaced, not added to.
ReplaceGroupedIeLength(m, group_ie, grouped_ie_length) ==
    StoreIeLength(m, group_ie, grouped_ie_length)

\* Fault: the length added to the group is added to the header length too.
AddGroupedIeLengthAndHeader(m, group_ie, grouped_ie_length) ==
    Store16(StoreIeLength(m, group_ie, IeLength(m.mem, group_ie) + grouped_ie_length),
            GTPC_LENGTH_OFF, htons(HeaderLength(m.mem) + grouped_ie_length))

\* group_ie->length = htons(ntohs(group_ie->length) + grouped_ie_length)
AddGroupedIeLengthOp(m, group_ie, grouped_ie_length) ==
    StoreIeLength(m, group_ie, IeLength(m.mem, group_ie) + grouped_ie_length)

----------------------------------------------------------------------------
(* The packet filter store (packet_filters.c): get_packet_filter.          *)

\* The port ranges a filter can hold: any port, one port, a range, port 0.
PortChoices == <<[low |-> 0, high |-> UINT16_MAX], [low |-> 80, high |-> 80],
                 [low |-> 1000, high |-> 2000], [low |-> 0, high |-> 0]>>
NumPortChoices == Len(PortChoices)
\* One filter per combination of remote address, local address, protocol,
\* remote ports and local ports.
NumPacketFilters == 2 * 2 * 2 * NumPortChoices * NumPortChoices

PacketFilter(index) ==
    LET rip == index % 2
        lip == (index \div 2) % 2
        pr == (index \div 4) % 2
        rp == PortChoices[((index \div 8) % NumPortChoices) + 1]
        lp == PortChoices[((index \div (8 * NumPortChoices)) % NumPortChoices) + 1]
    IN  [direction |-> 1 + (index % 3),
         precedence |-> 1 + index,
         remote_ip_addr |-> <<10, 1, 2, 3>>,
         remote_ip_mask |-> 24 * rip,
         local_ip_addr |-> <<192, 168, 7, 9>>,
         local_ip_mask |-> 32 * lip,
         proto |-> 17,
         proto_mask |-> 255 * pr,
         remote_port_low |-> rp.low,
         remote_port_high |-> rp.high,
         local_port_low |-> lp.low,
         local_port_high |-> lp.high]

\* get_packet_filter(index) == NULL
FilterMissing(index) == index \notin 0 .. (NumPacketFilters - 1)

----------------------------------------------------------------------------
(* set_bearer_tft_ie.  A cursor t holds the machine, cpf, component and    *)
(* ie_length.                                                              *)

Slots == 0 .. (MAX_FILTERS_PER_UE - 1)

\* cpf->pkt_filter_length, at the end of create_pkt_filter
FilterLengthOff(cpf) == cpf + CREATE_PKT_FILTER_SIZE - 1

\* cpf->pkt_filter_length += n, a uint8_t
AddFilterLength(t, n) ==
    [t EXCEPT !.m = Store8(@, FilterLengthOff(t.cpf),
                           t.m.mem[FilterLengthOff(t.cpf)] + n)]

\* the cursor with the machine m and component moved on by n
Moved(t, m, n) == [t EXCEPT !.m = m, !.component = @ + n]

\* component->type = type, the stores of the variant, the move to
\* next_component, the addition to pkt_filter_length
Ipv4Component(t, type, addr, mask) ==
    AddFilterLength(
        Moved(t,
              Store32(StoreBytes(Store8(t.m, t.component, type),
                                 t.component + COMPONENT_TYPE_SIZE, addr),
                      t.component + COMPONENT_TYPE_SIZE + IN_ADDR_SIZE,
                      Shr32(UINT32_MAX, 32 - mask)),
              NextOfIpv4),
        SizeofIpv4)

ProtoComponent(t, proto) ==
    AddFilterLength(
        Moved(t,
              Store8(Store8(t.m, t.component, PROTOCOL_ID_NEXT_HEADER),
                     t.component + COMPONENT_TYPE_SIZE, proto),
              NextOfProto),
        SizeofProto)

PortComponent(t, type, port) ==
    AddFilterLength(
        Moved(t,
              Store16(Store8(t.m, t.component, type),
                      t.component + COMPONENT_TYPE_SIZE, port),
              NextOfPort),
        SizeofPort)

PortRangeComponent(t, type, low, high) ==
    AddFilterLength(
        Moved(t,
              Store16(Store16(Store8(t.m, t.component, type),
                              t.component + COMPONENT_TYPE_SIZE, low),
                      t.component + COMPONENT_TYPE_SIZE + PORT_SIZE, high),
              NextOfPortRange),
        SizeofPortRange)

RemoteIpComponent(t, pf) ==
    IF pf.remote_ip_mask /= 0
    THEN Ipv4Component(t, IPV4_REMOTE_ADDRESS, pf.remote_ip_addr, pf.remote_ip_mask)
    ELSE t

LocalIpComponent(t, pf) ==
    IF pf.local_ip_mask /= 0
    THEN Ipv4Component(t, IPV4_LOCAL_ADDRESS, pf.local_ip_addr, pf.local_ip_mask)
    ELSE t

ProtocolComponent(t, pf) ==
    IF pf.proto_mask /= 0 THEN ProtoComponent(t, pf.proto) ELSE t

\* Fault: equal ports are written as a range.
RemotePortComponentAsRange(t, pf) ==
    IF pf.remote_port_low /= 0 \/ pf.remote_port_high /= UINT16_MAX
    THEN PortRangeComponent(t, REMOTE_PORT_RANGE, pf.remote_port_low,
                            pf.remote_port_high)
    ELSE t

\* single port, else range unless the range is 0..UINT16_MAX
RemotePortComponent(t, pf) ==
    IF pf.remote_port_low = pf.remote_port_high
    THEN PortComponent(t, SINGLE_REMOTE_PORT, pf.remote_port_low)
    ELSE IF pf.remote_port_low /= 0 \/ pf.remote_port_high /= UINT16_MAX
    THEN PortRangeComponent(t, REMOTE_PORT_RANGE, pf.remote_port_low,
                            pf.remote_port_high)
    ELSE t

LocalPortComponent(t, pf) ==
    IF pf.local_port_low = pf.local_port_high
    THEN PortComponent(t, SINGLE_LOCAL_PORT, pf.local_port_low)
    ELSE IF pf.local_port_low /= 0 \/ pf.local_port_high /= UINT16_MAX
    THEN PortRangeComponent(t, LOCAL_PORT_RANGE, pf.local_port_low,
                            pf.local_port_high)
    ELSE t

\* Fault: the identifiers of the filters count from one.
StoreFilterIdFromOne(m, cpf, i) ==
    Store8(m, cpf, ((m.mem[cpf] \div 16) * 16) + ((i + 1) % 16))

\* the first byte of create_pkt_filter: pkt_filter_id:4 direction:2 spare:2
StoreFilterId(m, cpf, i) == Store8(m, cpf, ((m.mem[cpf] \div 16) * 16) + (i % 16))
StoreFilterDirection(m, cpf, direction) ==
    Store8(m, cpf, ((m.mem[cpf] \div 64) * 64) + (16 * (direction % 4))
                       + (m.mem[cpf] % 16))
StoreFilterSpare(m, cpf) == Store8(m, cpf, m.mem[cpf] % 64)

\* component = &cpf[1] and the stores into *cpf
FilterHeader(t, i, pf) ==
    [t EXCEPT !.m = Store8(
                        Store8(
                            StoreFilterSpare(
                                StoreFilterDirection(StoreFilterId(@, t.cpf, i),
                                                     t.cpf, pf.direction),
                                t.cpf),
                            t.cpf + 1, pf.precedence),
                        FilterLengthOff(t.cpf), 0),
              !.component = t.cpf + CREATE_PKT_FILTER_SIZE]

\* Fault: ie_length grows by pkt_filter_length alone.
NextFilterWithoutHeader(t) ==
    [t EXCEPT !.ie_length = (@ + t.m.mem[FilterLengthOff(t.cpf)]) % 65536,
              !.cpf = t.component]

\* ie_length += cpf->pkt_filter_length + sizeof(create_pkt_filter);
\* cpf = (create_pkt_filter *) component
NextFilter(t) ==
    [t EXCEPT !.ie_length =
                  (@ + t.m.mem[FilterLengthOff(t.cpf)] + CREATE_PKT_FILTER_SIZE) % 65536,
              !.cpf = t.component]

\* Fault: the local port is written before the remote port.
EncodeFilterLocalPortFirst(t, i, pf) ==
    NextFilter(
        RemotePortComponent(
            LocalPortComponent(
                ProtocolComponent(
                    LocalIpComponent(RemoteIpComponent(FilterHeader(t, i, pf), pf), pf),
                    pf),
                pf),
            pf))

\* the body of the loop for a resolved filter
EncodeFilter(t, i, pf) ==
    NextFilter(
        LocalPortComponent(
            RemotePortComponent(
                ProtocolComponent(
                    LocalIpComponent(RemoteIpComponent(FilterHeader(t, i, pf), pf), pf),
                    pf),
                pf),
            pf))

\* ++tft->num_pkt_filters, a 4-bit field
IncNumPktFilters(t, tft) ==
    [t EXCEPT !.m = Store8(@, tft, ((t.m.mem[tft] \div 16) * 16)
                                       + (((t.m.mem[tft] % 16) + 1) % 16))]

\* Fault: num_pkt_filters counts only the filters the lookup resolves.
TftSlotCountingResolved(t, tft, i, bearer) ==
    IF bearer.packet_filter_map[i] = -ENOENT THEN t
    ELSE IF FilterMissing(bearer.packet_filter_map[i]) THEN t
    ELSE EncodeFilter(IncNumPktFilters(t, tft), i,
                      PacketFilter(bearer.packet_filter_map[i]))

\* one turn of the loop over the slots
TftSlot(t, tft, i, bearer) ==
    IF bearer.packet_filter_map[i] = -ENOENT THEN t
    ELSE IF FilterMissing(bearer.packet_filter_map[i]) THEN IncNumPktFilters(t, tft)
    ELSE EncodeFilter(IncNumPktFilters(t, tft), i,
                      PacketFilter(bearer.packet_filter_map[i]))

RECURSIVE TftSlots(_, _, _, _)
TftSlots(t, tft, i, bearer) ==
    IF i >= MAX_FILTERS_PER_UE THEN t
    ELSE TftSlots(TftSlot(t, tft, i, bearer), tft, i + 1, bearer)

\* the byte of bearer_tft_ie: num_pkt_filters:4 parameter_list:1 tft_op_code:3
StoreNumPktFilters(m, tft, n) == Store8(m, tft, ((m.mem[tft] \div 16) * 16) + (n % 16))
StoreTftOpCode(m, tft, code) == Store8(m, tft, (32 * (code % 8)) + (m.mem[tft] % 32))
StoreParameterList(m, tft, v) ==
    Store8(m, tft, ((m.mem[tft] \div 32) * 32) + (16 * (v % 2)) + (m.mem[tft] % 16))

\* the cursor before the loop: cpf = &tft[1], ie_length = 0
TftStart(m, tft) ==
    [m |-> StoreParameterList(
               StoreTftOpCode(StoreNumPktFilters(m, tft, 0), tft, TFT_OP_CREATE_NEW),
               tft, 0),
     cpf |-> tft + BEARER_TFT_SIZE,
     component |-> tft + BEARER_TFT_SIZE,
     ie_length |-> 0]

\* set_ie_size(header, ie, sizeof(bearer_tft_ie) + ie_length), the length a uint16_t
TftClose(r, t) ==
    [m |-> SetIeSize(t.m, r.ie, (BEARER_TFT_SIZE + t.ie_length) % 65536),
     ie |-> r.ie,
     body |-> t.cpf - IeBody(r.ie),
     opened |-> r.m,
     size |-> (BEARER_TFT_SIZE + t.ie_length) % 65536]

\* r is what set_next_unsized_ie gave
TftBody(r, bearer) ==
    TftClose(r, TftSlots(TftStart(r.m, IeBody(r.ie)), IeBody(r.ie), 0, bearer))

\* the value returned: get_ie_return(ie), never reached after rte_panic
TftReturn(c) ==
    [m |-> c.m, ie |-> c.ie, body |-> c.body, opened |-> c.opened, size |-> c.size,
     ret |-> IF c.m.panic THEN 0 ELSE GetIeReturn(c.m, c.ie)]

SetBearerTftIeOp(m, instance, bearer) ==
    TftReturn(TftBody(SetNextUnsizedIe(m, IE_BEARER_TFT, instance), bearer))

----------------------------------------------------------------------------
(* The inputs the callers supply.                                          *)

\* enum ie_instance
IE_INSTANCE_ZERO == 0
IE_INSTANCE_ONE == 1
Instances == {IE_INSTANCE_ZERO, IE_INSTANCE_ONE}
EbiValues == {5, 31}
ApnRestrictions == {1}
PtiValues == {7}
Interfaces == {7}
Teids == {<<258, 772>>}
Ipv4Addrs == {<<10, 0, 0, 1>>}
\* what the transmit buffer holds before the message is built
FillBytes == {0, 170}
\* header.gtpc.length of a header without and with a TEID
InitLens == {4, 8}

\* an index get_packet_filter does not resolve
MissingFilter == NumPacketFilters + 5
\* filter with a remote and a local single port
PortsFilter == 8 + (8 * NumPortChoices)
\* filter with every component, both ports as ranges
FullFilter == 7 + (8 * 2) + (8 * NumPortChoices * 2)

Arps == {[preemption_vulnerability |-> 1, priority_level |-> 9,
          preemption_capability |-> 0]}
QosSegment == [k \in 1 .. QOS_SEGMENT_SIZE |-> k]

Bearer(map) == [qos |-> [arp |-> CHOOSE a \in Arps : TRUE, qos |-> QosSegment],
                packet_filter_map |-> map]

EmptyMap == [i \in Slots |-> -ENOENT]

\* The filter tables of the bearers of a message under construction.
BearerMaps ==
    { EmptyMap,
      [i \in Slots |-> IF i \in {0, MAX_FILTERS_PER_UE - 1} THEN 9 + i ELSE -ENOENT],
      [i \in Slots |-> IF i = 1 THEN MissingFilter
                       ELSE IF i < 3 THEN FullFilter ELSE -ENOENT] }

\* The filter tables with one slot holding any index and the others empty or
\* holding PortsFilter.
AnyBearerMaps ==
    UNION { { [j \in Slots |-> IF j = i THEN index ELSE rest[j]] :
                index \in {-ENOENT, MissingFilter} \cup (0 .. (NumPacketFilters - 1)),
                rest \in [Slots -> {-ENOENT, PortsFilter}] } : i \in Slots }

----------------------------------------------------------------------------
(* The state machine: a caller building one message.                       *)

NoCall ==
    [op |-> "none", instance |-> 0, pre |-> 0, ie |-> NoIe, size |-> 0, body |-> 0,
     ret |-> 0, wr |-> {}, openWr |-> {}, map |-> EmptyMap, signal |-> FALSE,
     value |-> 0]

\* no call is being executed statement by statement
Idle ==
    [fn |-> "none", pc |-> "idle", type |-> 0, instance |-> 0, length |-> 0,
     ie |-> NoIe, pre |-> 0, map |-> EmptyMap, i |-> 0, cpf |-> 0, component |-> 0,
     ie_length |-> 0, start |-> <<>>, log |-> <<>>]

Init ==
    /\ host \in {"le", "be"}
    /\ initLen \in InitLens
    /\ \E fill \in FillBytes :
         mem = Store16(
                   Machine([a \in Addr |->
                               IF a = 0 THEN 72
                               ELSE IF a = 1 THEN 33
                               ELSE IF a < TeidU + initLen THEN 0 ELSE fill]),
                   GTPC_LENGTH_OFF, htons(initLen)).mem
    /\ outcome = "ok"
    /\ ies = <<>>
    /\ group = NoIe
    /\ children = <<>>
    /\ pending = 0
    /\ last = NoCall
    /\ run = Idle

\* The caller may call an encoder: the process runs, the value returned by the
\* last child has been added to the group, and the message has room in the model.
CanEncode == outcome = "ok" /\ pending = 0 /\ Len(ies) < MaxIEs

\* The state after the encoder call `call` that gave r.
Encoded(call, r) ==
    /\ mem' = r.m.mem
    /\ outcome' = IF r.m.panic THEN "panic" ELSE "ok"
    /\ ies' = IF r.m.panic THEN ies ELSE Append(ies, [off |-> r.ie, body |-> r.body])
    /\ children' = IF group /= NoIe /\ ~r.m.panic
                   THEN Append(children, IE_HEADER_SIZE + r.body) ELSE children
    /\ pending' = IF group /= NoIe /\ ~r.m.panic THEN r.ret ELSE 0
    /\ last' = [call EXCEPT !.pre = HeaderLength(mem), !.ie = r.ie, !.size = r.size,
                            !.body = r.body, !.ret = r.ret, !.wr = r.m.wr]
    /\ UNCHANGED <<host, initLen, group, run>>

Call(op, instance) == [NoCall EXCEPT !.op = op, !.instance = instance]

SetCauseAcceptedIe ==
    /\ CanEncode
    /\ \E instance \in {IE_INSTANCE_ZERO} :
         Encoded(Call("set_cause_accepted_ie", instance),
                 SetCauseAcceptedIeOp(Machine(mem), instance))

SetArPriorityIe ==
    /\ CanEncode
    /\ \E instance \in {IE_INSTANCE_ZERO}, map \in {EmptyMap} :
         Encoded(Call("set_ar_priority_ie", instance),
                 SetArPriorityIeOp(Machine(mem), instance, Bearer(map)))

SetIpv4FteidIe ==
    /\ CanEncode
    /\ \E interface \in Interfaces, instance \in {IE_INSTANCE_ZERO}, ipv4 \in Ipv4Addrs,
          teid \in Teids :
         Encoded([Call("set_ipv4_fteid_ie", instance) EXCEPT !.value = teid],
                 SetIpv4FteidIeOp(Machine(mem), interface, instance, ipv4, teid))

SetIpv4PaaIe ==
    /\ CanEncode
    /\ \E instance \in {IE_INSTANCE_ZERO}, ipv4 \in Ipv4Addrs :
         Encoded(Call("set_ipv4_paa_ie", instance),
                 SetIpv4PaaIeOp(Machine(mem), instance, ipv4))

SetApnRestrictionIe ==
    /\ CanEncode
    /\ \E instance \in {IE_INSTANCE_ZERO}, apn_restriction \in ApnRestrictions :
         Encoded(Call("set_apn_restriction_ie", instance),
                 SetApnRestrictionIeOp(Machine(mem), instance, apn_restriction))

SetEbiIe ==
    /\ CanEncode
    /\ \E instance \in {IE_INSTANCE_ZERO}, ebi \in EbiValues :
         Encoded([Call("set_ebi_ie", instance) EXCEPT !.signal = InvalidEbi(ebi),
                                                      !.value = ebi],
                 SetEbiIeOp(Machine(mem), instance, ebi))

SetPtiIe ==
    /\ CanEncode
    /\ \E instance \in {IE_INSTANCE_ZERO}, pti \in PtiValues :
         Encoded(Call("set_pti_ie", instance),
                 SetPtiIeOp(Machine(mem), instance, pti))

SetBearerQosIe ==
    /\ CanEncode
    /\ \E instance \in {IE_INSTANCE_ZERO}, map \in {EmptyMap} :
         Encoded(Call("set_bearer_qos_ie", instance),
                 SetBearerQosIeOp(Machine(mem), instance, Bearer(map)))

SetRecoveryIe ==
    /\ CanEncode
    /\ \E instance \in {IE_INSTANCE_ZERO} :
         Encoded(Call("set_recovery_ie", instance),
                 SetRecoveryIeOp(Machine(mem), instance))

\* The state after set_bearer_tft_ie gave r for the filter table map.
TftEncoded(instance, map, r) ==
    Encoded([Call("set_bearer_tft_ie", instance) EXCEPT
                 !.openWr = r.opened.wr, !.map = map],
            r)

\* set_bearer_tft_ie with one of instances, for a bearer whose filter table is one
\* of maps
BearerTft(instances, maps) ==
    \E instance \in instances, map \in maps :
        TftEncoded(instance, map, SetBearerTftIeOp(Machine(mem), instance, Bearer(map)))

SetBearerTftIe == CanEncode /\ BearerTft({IE_INSTANCE_ONE}, BearerMaps)

\* The state after create_bearer_context_ie gave r: the caller keeps the IE
\* returned as the group it adds the lengths of the next IEs to.
ContextCreated(call, r) ==
    /\ mem' = r.m.mem
    /\ outcome' = IF r.m.panic THEN "panic" ELSE "ok"
    /\ ies' = IF r.m.panic THEN ies ELSE Append(ies, [off |-> r.ie, body |-> r.body])
    /\ group' = IF r.m.panic THEN group ELSE r.ie
    /\ children' = IF r.m.panic THEN children ELSE <<>>
    /\ pending' = 0
    /\ last' = [call EXCEPT !.pre = HeaderLength(mem), !.ie = r.ie, !.wr = r.m.wr]
    /\ UNCHANGED <<host, initLen, run>>

CreateBearerContextIe ==
    /\ CanEncode
    /\ \E instance \in {IE_INSTANCE_ZERO} :
         ContextCreated(Call("create_bearer_context_ie", instance),
                        CreateBearerContextIeOp(Machine(mem), instance))

LengthAdded(m) ==
    /\ mem' = m.mem
    /\ last' = [Call("add_grouped_ie_length", 0) EXCEPT
                    !.pre = HeaderLength(mem), !.ie = group, !.size = pending,
                    !.wr = m.wr]
    /\ pending' = 0
    /\ UNCHANGED <<host, outcome, initLen, ies, group, children, run>>

\* add_grouped_ie_length(group, <the value the child's encoder returned>)
AddGroupedIeLength ==
    /\ outcome = "ok"
    /\ group /= NoIe
    /\ pending /= 0
    /\ LengthAdded(AddGroupedIeLengthOp(Machine(mem), group, pending))

Next ==
    \/ SetCauseAcceptedIe
    \/ SetArPriorityIe
    \/ SetIpv4FteidIe
    \/ SetIpv4PaaIe
    \/ SetApnRestrictionIe
    \/ SetEbiIe
    \/ SetPtiIe
    \/ SetBearerQosIe
    \/ SetBearerTftIe
    \/ SetRecoveryIe
    \/ CreateBearerContextIe
    \/ AddGroupedIeLength

Spec == Init /\ [][Next]_vars

\* A message of one IE: the Bearer TFT of a bearer with any kind of filter, or
\* one of the other IEs.
SetAnyBearerTftIe ==
    /\ CanEncode
    /\ ies = <<>>
    /\ BearerTft({IE_INSTANCE_ZERO}, AnyBearerMaps)

SetOtherIe ==
    /\ ies = <<>>
    /\ \/ SetCauseAcceptedIe
       \/ SetArPriorityIe
       \/ SetIpv4FteidIe
       \/ SetIpv4PaaIe
       \/ SetApnRestrictionIe
       \/ SetEbiIe
       \/ SetPtiIe
       \/ SetBearerQosIe
       \/ SetRecoveryIe
       \/ CreateBearerContextIe

NextTft ==
    \/ SetAnyBearerTftIe
    \/ SetOtherIe

SpecTft == Init /\ [][NextTft]_vars

\* A message of at most three IEs that ends with the EBI: any uint8_t as the ebi,
\* after nothing, after one of the other IEs, or after one of them and a Bearer
\* TFT.
AllEbiValues == 0 .. 255

SetAnyEbiIe ==
    /\ CanEncode
    /\ last.op /= "set_ebi_ie"
    /\ \E instance \in {IE_INSTANCE_ZERO}, ebi \in AllEbiValues :
         Encoded([Call("set_ebi_ie", instance) EXCEPT !.signal = InvalidEbi(ebi),
                                                      !.value = ebi],
                 SetEbiIeOp(Machine(mem), instance, ebi))

SetFillingTftIe ==
    /\ CanEncode
    /\ Len(ies) = 1
    /\ last.op /= "set_ebi_ie"
    /\ BearerTft({IE_INSTANCE_ONE}, BearerMaps)

NextEbi ==
    \/ SetAnyEbiIe
    \/ SetOtherIe
    \/ SetFillingTftIe

SpecEbi == Init /\ [][NextEbi]_vars

----------------------------------------------------------------------------
(* set_next_ie and set_bearer_tft_ie, one statement at a time.  run.pc is   *)
(* the statement to execute next and run.log the statements executed.      *)

\* Fault: header->gtpc.length is updated before the capacity is verified.
SetNextIeStepsLengthFirst ==
    <<"position", "header_length", "check", "type", "instance", "length", "spare",
      "return">>

\* the statements of set_next_ie in the order of the source
SetNextIeSteps ==
    <<"position", "check", "header_length", "type", "instance", "length", "spare",
      "return">>

\* the statement that follows stmt in steps
After(steps, stmt) ==
    LET k == CHOOSE j \in 1 .. Len(steps) : steps[j] = stmt
    IN  IF k = Len(steps) THEN "done" ELSE steps[k + 1]

\* the calls of set_next_ie made in this file: type and length
StepCalls ==
    { [type |-> IE_BEARER_CONTEXT, length |-> 0],
      [type |-> IE_RECOVERY, length |-> 1],
      [type |-> IE_BEARER_QOS, length |-> AR_PRIORITY_SIZE + QOS_SEGMENT_SIZE] }

\* a function may be entered: none is running and the process has not ended
CanCall == outcome = "ok" /\ run.pc \in {"idle", "done"} /\ Len(ies) < MaxIEs

CallSetNextIe ==
    /\ CanCall
    /\ \E call \in StepCalls, instance \in {IE_INSTANCE_ZERO} :
         run' = [Idle EXCEPT !.fn = "set_next_ie", !.pc = SetNextIeSteps[1],
                             !.type = call.type, !.instance = instance,
                             !.length = call.length, !.pre = HeaderLength(mem),
                             !.start = mem]
    /\ UNCHANGED <<host, mem, outcome, initLen, ies, group, children, pending, last>>

\* the memory after the statement stmt of set_next_ie
SetNextIeStore(stmt) ==
    CASE stmt = "header_length" -> AdvanceHeader(Machine(mem), run.length).mem
      [] stmt = "type" -> StoreIeType(Machine(mem), run.ie, run.type).mem
      [] stmt = "instance" -> StoreIeInstance(Machine(mem), run.ie, run.instance).mem
      [] stmt = "length" -> StoreIeLength(Machine(mem), run.ie, run.length).mem
      [] stmt = "spare" -> StoreIeSpare(Machine(mem), run.ie).mem
      [] OTHER -> mem

StepSetNextIe ==
    /\ outcome = "ok"
    /\ run.fn = "set_next_ie"
    /\ run.pc \notin {"idle", "done"}
    /\ mem' = SetNextIeStore(run.pc)
    /\ outcome' = IF run.pc = "check" /\ Overflows(Machine(mem), run.length)
                  THEN "panic" ELSE "ok"
    /\ run' = [run EXCEPT !.pc = After(SetNextIeSteps, run.pc),
                          !.log = Append(@, run.pc),
                          !.ie = IF run.pc = "position" THEN NextIe(Machine(mem))
                                 ELSE @]
    /\ ies' = IF run.pc = "return"
              THEN Append(ies, [off |-> run.ie, body |-> run.length]) ELSE ies
    /\ UNCHANGED <<host, initLen, group, children, pending, last>>

\* Fault: a filter that does not resolve ends the function.
TftNextPcReturnOnMiss(pc, i, missing) ==
    CASE pc = "open" -> "start"
      [] pc = "start" -> "slot"
      [] pc = "slot" -> IF missing THEN "return"
                        ELSE IF i + 1 < MAX_FILTERS_PER_UE THEN "slot" ELSE "close"
      [] pc = "close" -> "return"
      [] OTHER -> "done"

\* the statement of set_bearer_tft_ie that follows pc, i being the slot of the
\* turn of the loop just made and missing whether its filter did not resolve
TftNextPc(pc, i, missing) ==
    CASE pc = "open" -> "start"
      [] pc = "start" -> "slot"
      [] pc = "slot" -> IF i + 1 < MAX_FILTERS_PER_UE THEN "slot" ELSE "close"
      [] pc = "close" -> "return"
      [] OTHER -> "done"

\* The filter tables of the calls executed statement by statement: those of
\* BearerMaps, and one whose slot 1 does not resolve while slot 0 does.
StepMaps ==
    BearerMaps
        \cup { [i \in Slots |-> IF i = 0 THEN PortsFilter
                                ELSE IF i = 1 THEN MissingFilter ELSE -ENOENT] }

CallSetBearerTftIe ==
    /\ CanCall
    /\ \E instance \in {IE_INSTANCE_ZERO}, map \in StepMaps :
         run' = [Idle EXCEPT !.fn = "set_bearer_tft_ie", !.pc = "open",
                             !.instance = instance, !.map = map,
                             !.pre = HeaderLength(mem), !.start = mem]
    /\ UNCHANGED <<host, mem, outcome, initLen, ies, group, children, pending, last>>

\* the cursor of the loop, on the memory as it is
Cursor ==
    [m |-> Machine(mem), cpf |-> run.cpf, component |-> run.component,
     ie_length |-> run.ie_length]

\* the cursor after the statement stmt of set_bearer_tft_ie
TftCursorAfter(stmt) ==
    CASE stmt = "open" ->
             [Cursor EXCEPT !.m = SetNextUnsizedIe(Machine(mem), IE_BEARER_TFT,
                                                   run.instance).m]
      [] stmt = "start" -> TftStart(Machine(mem), IeBody(run.ie))
      [] stmt = "slot" -> TftSlot(Cursor, IeBody(run.ie), run.i, Bearer(run.map))
      [] stmt = "close" ->
             [Cursor EXCEPT !.m = SetIeSize(Machine(mem), run.ie,
                                            (BEARER_TFT_SIZE + run.ie_length) % 65536)]
      [] OTHER -> Cursor

\* the state after a statement of set_bearer_tft_ie left the cursor t
TftStepped(t) ==
    /\ mem' = t.m.mem
    /\ outcome' = IF t.m.panic THEN "panic" ELSE "ok"
    /\ run' = [run EXCEPT
                  !.pc = TftNextPc(run.pc, run.i,
                                   /\ run.map[run.i] /= -ENOENT
                                   /\ FilterMissing(run.map[run.i])),
                  !.log = Append(@, run.pc),
                  !.ie = IF run.pc = "open" THEN NextIe(Machine(mem)) ELSE @,
                  !.i = IF run.pc = "slot" THEN @ + 1 ELSE @,
                  !.cpf = t.cpf, !.component = t.component,
                  !.ie_length = t.ie_length]
    /\ ies' = IF run.pc = "return"
              THEN Append(ies, [off |-> run.ie, body |-> run.cpf - IeBody(run.ie)])
              ELSE ies
    /\ UNCHANGED <<host, initLen, group, children, pending, last>>

StepSetBearerTftIe ==
    /\ outcome = "ok"
    /\ run.fn = "set_bearer_tft_ie"
    /\ run.pc \notin {"idle", "done"}
    /\ TftStepped(TftCursorAfter(run.pc))

NextSteps ==
    \/ CallSetNextIe
    \/ StepSetNextIe
    \/ CallSetBearerTftIe
    \/ StepSetBearerTftIe

SpecSteps == Init /\ [][NextSteps]_vars

----------------------------------------------------------------------------
(* The properties.                                                         *)

\* the calls that write an IE
Writers ==
    {"set_cause_accepted_ie", "set_ar_priority_ie", "set_ipv4_fteid_ie",
     "set_ipv4_paa_ie", "set_apn_restriction_ie", "set_ebi_ie", "set_pti_ie",
     "set_bearer_qos_ie", "set_bearer_tft_ie", "set_recovery_ie",
     "create_bearer_context_ie"}
\* the calls that return the number of bytes written
Encoders == Writers \ {"create_bearer_context_ie"}

\* the bytes of the records: sizeof(gtpv2c_ie) and the body, for each
RECURSIVE RecordBytes(_)
RecordBytes(records) ==
    IF records = <<>> THEN 0
    ELSE IE_HEADER_SIZE + Head(records).body + RecordBytes(Tail(records))

RECURSIVE Sum(_)
Sum(sizes) == IF sizes = <<>> THEN 0 ELSE Head(sizes) + Sum(Tail(sizes))

\* C1: after any sequence of IE writes, header.length is its initial value plus,
\* for every IE record written, IE_HEADER_SIZE and the bytes of the record's body.
C1_LengthInvariant == HeaderLength(mem) = initLen + RecordBytes(ies)

\* C1 witness: a Bearer TFT with filters has been closed as the third IE.
C1_Witness ==
    /\ outcome = "ok"
    /\ Len(ies) = 3
    /\ last.op = "set_bearer_tft_ie"
    /\ last.body > BEARER_TFT_SIZE

\* C2: a write (set_next_ie or set_ie_size) succeeds when header.length +
\* IE_HEADER_SIZE + body length is at most MAX_GTPV2C_LENGTH, and ends in the
\* overflow panic when it is MAX_GTPV2C_LENGTH + 1 or more; nothing else happens.
C2_CapacityBoundary ==
    last.op \in Writers =>
        IF last.pre + IE_HEADER_SIZE + last.size <= MAX_GTPV2C_LENGTH
        THEN outcome = "ok" /\ HeaderLength(mem) = last.pre + IE_HEADER_SIZE + last.size
        ELSE outcome = "panic" /\ HeaderLength(mem) = last.pre

\* C2 witness: the deferred close of a Bearer TFT that fills the message exactly
\* to MAX_GTPV2C_LENGTH.
C2_Witness ==
    /\ last.op = "set_bearer_tft_ie"
    /\ last.pre + IE_HEADER_SIZE + last.size = MAX_GTPV2C_LENGTH
    /\ outcome = "ok"

\* C3 as claimed: the end of the last IE, measured from the start of the message
\* buffer (GTPC_SIZE + header.length), never exceeds MAX_GTPV2C_LENGTH.
C3_WholeMessageBound == GTPC_SIZE + HeaderLength(mem) <= MAX_GTPV2C_LENGTH

\* C3 as amended: header.length, the bytes after the first GTPC_SIZE bytes, never
\* exceeds MAX_GTPV2C_LENGTH; the end of the last IE measured from the start of
\* the buffer never exceeds GTPC_SIZE + MAX_GTPV2C_LENGTH.
C3_LengthBound ==
    /\ HeaderLength(mem) <= MAX_GTPV2C_LENGTH
    /\ \A k \in 1 .. Len(ies) :
         ies[k].off + IE_HEADER_SIZE + ies[k].body <= GTPC_SIZE + MAX_GTPV2C_LENGTH

\* C3 witness: IEs have been written and header.length is MAX_GTPV2C_LENGTH.
C3_Witness ==
    /\ outcome = "ok"
    /\ ies /= <<>>
    /\ HeaderLength(mem) = MAX_GTPV2C_LENGTH

\* C4: when a writer ends in the overflow panic, it has stored to no byte.
C4_NoPartialWrite == (outcome = "panic" /\ last.op \in Writers) => last.wr = {}

\* the length field of the group after add_grouped_ie_length(group, a) and then
\* add_grouped_ie_length(group, b)
AddedTwice(m, group_ie, a, b) ==
    IeLength(AddGroupedIeLengthOp(AddGroupedIeLengthOp(m, group_ie, a), group_ie, b).mem,
             group_ie)

\* C5: for a Bearer Context created with length 0, after each call of
\* add_grouped_ie_length made with the value a child's encoder returned, the
\* length field of the parent is the sum of the record sizes of its children;
\* adding 12 and then 20 to a new parent gives 32.
C5_GroupedLength ==
    (outcome = "ok" /\ group /= NoIe /\ pending = 0) =>
        /\ IeLength(mem, group) = Sum(children)
        /\ children = <<>> => AddedTwice(Machine(mem), group, 12, 20) = 32

\* C5 witness: the lengths of two children have been added to a Bearer Context.
C5_Witness ==
    /\ outcome = "ok"
    /\ group /= NoIe
    /\ Len(children) = 2
    /\ pending = 0
    /\ last.op = "add_grouped_ie_length"

\* the IEs whose body the encoder writes itself: all but the Bearer Context
IsGroup(record) == mem[record.off] = IE_BEARER_CONTEXT

\* C6: the length field of every IE an encoder has written is the number of
\* body bytes that follow its header; for the Bearer TFT the length given to
\* set_ie_size is the number of bytes from the start of the body to the final
\* position of the component cursor.
C6_ExactBodyLength ==
    /\ \A k \in 1 .. Len(ies) :
         ~IsGroup(ies[k]) => IeLength(mem, ies[k].off) = ies[k].body
    /\ last.op = "set_bearer_tft_ie" => last.size = last.body

\* C6 witness: a Bearer TFT holding a filter with all five components and a
\* filter with two has been closed.
C6_Witness ==
    /\ outcome = "ok"
    /\ last.op = "set_bearer_tft_ie"
    /\ \E i, j \in Slots :
         i /= j /\ last.map[i] = FullFilter /\ last.map[j] = PortsFilter

\* C7: every encoder returns the number of bytes by which the call advanced
\* header.length, IE_HEADER_SIZE plus the bytes of the body of the IE.
C7_ReturnValue ==
    (outcome = "ok" /\ last.op \in Encoders) =>
        /\ last.ret = HeaderLength(mem) - last.pre
        /\ last.ret = IE_HEADER_SIZE + last.body

\* C7 witness: set_bearer_tft_ie has returned for a bearer with filters.
C7_Witness ==
    /\ outcome = "ok"
    /\ last.op = "set_bearer_tft_ie"
    /\ last.body > BEARER_TFT_SIZE
    /\ last.ret = IE_HEADER_SIZE + last.body

\* set_next_unsized_ie followed by set_ie_size
CloseOpened(r, length) == SetIeSize(r.m, r.ie, length)

\* the header, the outcome and the four bytes of the gtpv2c_ie at ie agree
SameIe(a, b, ie) ==
    /\ a.panic = b.panic
    /\ HeaderLength(a.mem) = HeaderLength(b.mem)
    /\ \A k \in 0 .. (IE_HEADER_SIZE - 1) : a.mem[ie + k] = b.mem[ie + k]

\* the body lengths tried: a small one, the one that fills the message, one more
TrialLengths ==
    {1} \cup { l \in {MAX_GTPV2C_LENGTH - IE_HEADER_SIZE - HeaderLength(mem),
                      MAX_GTPV2C_LENGTH - IE_HEADER_SIZE - HeaderLength(mem) + 1} :
                 l >= 0 }

\* C8: from the same state, set_next_unsized_ie followed by set_ie_size(ie, L)
\* gives the same header.length, the same type, instance, spare and length
\* fields of the IE, and the same outcome, as set_next_ie(type, instance, L).
C8_DeferredAsFixed ==
    outcome = "ok" =>
        \A instance \in Instances, length \in TrialLengths :
            SameIe(SetNextIe(Machine(mem), IE_BEARER_TFT, instance, length).m,
                   CloseOpened(SetNextUnsizedIe(Machine(mem), IE_BEARER_TFT, instance),
                               length),
                   NextIe(Machine(mem)))

\* r is what set_next_unsized_ie(type, instance) gave on m
OpenedOnly(m, r, type, instance) ==
    /\ r.ie = TeidU + HeaderLength(m.mem)
    /\ ~r.m.panic
    /\ r.m.wr = {r.ie, r.ie + IE_INSTANCE_OFF}
    /\ r.m.mem[r.ie] = type
    /\ r.m.mem[r.ie + IE_INSTANCE_OFF] = instance
    /\ \A a \in Addr \ {r.ie, r.ie + IE_INSTANCE_OFF} : r.m.mem[a] = m.mem[a]
    /\ HeaderLength(r.m.mem) = HeaderLength(m.mem)
    /\ Load16(r.m.mem, r.ie + IE_LENGTH_OFF) = Load16(m.mem, r.ie + IE_LENGTH_OFF)

\* C9: set_next_unsized_ie stores only the type, instance and spare fields of the
\* gtpv2c_ie at offset header.length; header.length and the length field of the
\* IE are as before.
C9_OpenUnsized ==
    /\ last.op = "set_bearer_tft_ie" =>
         /\ last.ie = TeidU + last.pre
         /\ last.openWr = {last.ie, last.ie + IE_INSTANCE_OFF}
    /\ outcome = "ok" =>
         \A instance \in Instances :
             OpenedOnly(Machine(mem),
                        SetNextUnsizedIe(Machine(mem), IE_BEARER_TFT, instance),
                        IE_BEARER_TFT, instance)

\* C9 witness: set_bearer_tft_ie opened an IE that was never closed; its type is
\* in memory and nothing was stored to its length field.
C9_Witness ==
    /\ outcome = "panic"
    /\ last.op = "set_bearer_tft_ie"
    /\ last.instance = 1
    /\ mem[last.ie] = IE_BEARER_TFT
    /\ last.wr \cap {last.ie + IE_LENGTH_OFF, last.ie + IE_LENGTH_OFF + 1} = {}

\* the slots of a filter table that are not empty, and whether they all resolve
NonEmptySlots(map) == {i \in Slots : map[i] /= -ENOENT}
AllResolve(map) == \A i \in NonEmptySlots(map) : ~FilterMissing(map[i])

\* the slots of s in ascending order
RECURSIVE Ascending(_)
Ascending(s) ==
    IF s = {} THEN <<>>
    ELSE LET least == CHOOSE i \in s : \A j \in s : i <= j
         IN  <<least>> \o Ascending(s \ {least})

\* the bytes a component takes on the wire, by its type; 0 for no component type
WireComponentSize(type) ==
    IF type \in {IPV4_REMOTE_ADDRESS, IPV4_LOCAL_ADDRESS} THEN 1 + 2 * IN_ADDR_SIZE
    ELSE IF type = PROTOCOL_ID_NEXT_HEADER THEN 1 + PROTO_SIZE
    ELSE IF type \in {SINGLE_LOCAL_PORT, SINGLE_REMOTE_PORT} THEN 1 + PORT_SIZE
    ELSE IF type \in {LOCAL_PORT_RANGE, REMOTE_PORT_RANGE} THEN 1 + 2 * PORT_SIZE
    ELSE 0

\* whether components fill the bytes from c to end exactly
RECURSIVE ComponentsFill(_, _, _)
ComponentsFill(memory, c, end) ==
    IF c = end THEN TRUE
    ELSE IF c > end \/ WireComponentSize(memory[c]) = 0 THEN FALSE
    ELSE ComponentsFill(memory, c + WireComponentSize(memory[c]), end)

\* reading n filter sub-records from cpf on, each followed by the components its
\* pkt_filter_length announces: the pkt_filter_ids read, and where the last ends
RECURSIVE ReadFilterIds(_, _, _)
ReadFilterIds(memory, cpf, n) ==
    IF n = 0 THEN <<>>
    ELSE <<memory[cpf] % 16>>
             \o ReadFilterIds(memory,
                              cpf + CREATE_PKT_FILTER_SIZE + memory[FilterLengthOff(cpf)],
                              n - 1)

RECURSIVE ReadFiltersEnd(_, _, _)
ReadFiltersEnd(memory, cpf, n) ==
    IF n = 0 THEN cpf
    ELSE ReadFiltersEnd(memory,
                        cpf + CREATE_PKT_FILTER_SIZE + memory[FilterLengthOff(cpf)],
                        n - 1)

RECURSIVE FiltersWellFormed(_, _, _)
FiltersWellFormed(memory, cpf, n) ==
    IF n = 0 THEN TRUE
    ELSE /\ ComponentsFill(memory, cpf + CREATE_PKT_FILTER_SIZE,
                           cpf + CREATE_PKT_FILTER_SIZE + memory[FilterLengthOff(cpf)])
         /\ FiltersWellFormed(memory,
                              cpf + CREATE_PKT_FILTER_SIZE
                                  + memory[FilterLengthOff(cpf)],
                              n - 1)

\* the Bearer TFT at ie, read back: num_pkt_filters is the number of the slots,
\* that many sub-records follow the bearer_tft_ie one after the other, each with
\* whole components, their ids are the slots in ascending order, and they end
\* where the body of the IE ends
ReadsAs(memory, ie, slots) ==
    /\ memory[IeBody(ie)] % 16 = Cardinality(slots)
    /\ FiltersWellFormed(memory, IeBody(ie) + BEARER_TFT_SIZE, Cardinality(slots))
    /\ ReadFilterIds(memory, IeBody(ie) + BEARER_TFT_SIZE, Cardinality(slots))
           = Ascending(slots)
    /\ ReadFiltersEnd(memory, IeBody(ie) + BEARER_TFT_SIZE, Cardinality(slots))
           = IeBody(ie) + IeLength(memory, ie)

\* C10: for a bearer whose non-empty slots all resolve, num_pkt_filters is the
\* number of non-empty slots and the IE holds that many filter sub-records, laid
\* out one after the other in ascending slot order, pkt_filter_id being the slot.
C10_SparseFilterTable ==
    (outcome = "ok" /\ last.op = "set_bearer_tft_ie" /\ AllResolve(last.map)) =>
        ReadsAs(mem, last.ie, NonEmptySlots(last.map))

\* C10 witness: a Bearer TFT written for a bearer with filters at slots 0 and 3
\* only.
C10_Witness ==
    /\ outcome = "ok"
    /\ last.op = "set_bearer_tft_ie"
    /\ NonEmptySlots(last.map) = {0, 3}
    /\ AllResolve(last.map)

\* the non-empty slots of a filter table that get_packet_filter resolves
ResolvedSlots(map) == {i \in NonEmptySlots(map) : ~FilterMissing(map[i])}

\* the Bearer TFT at ie holds sub-records for the slots of slots and no other:
\* whole components, ids in ascending order, ending where the body of the IE ends
HoldsFilters(memory, ie, slots) ==
    /\ FiltersWellFormed(memory, IeBody(ie) + BEARER_TFT_SIZE, Cardinality(slots))
    /\ ReadFilterIds(memory, IeBody(ie) + BEARER_TFT_SIZE, Cardinality(slots))
           = Ascending(slots)
    /\ ReadFiltersEnd(memory, IeBody(ie) + BEARER_TFT_SIZE, Cardinality(slots))
           = IeBody(ie) + IeLength(memory, ie)

\* C11: when the index of a non-empty slot does not resolve, set_bearer_tft_ie
\* does not abort: the IE holds the sub-records of the resolved slots only, before
\* and after the slot, the filter cursor ends where the last of them ends, and
\* num_pkt_filters is the number of non-empty slots, the unresolved included.
C11_LookupMiss ==
    (outcome = "ok" /\ last.op = "set_bearer_tft_ie") =>
        /\ HoldsFilters(mem, last.ie, ResolvedSlots(last.map))
        /\ mem[IeBody(last.ie)] % 16 = Cardinality(NonEmptySlots(last.map))
        /\ last.body = ReadFiltersEnd(mem, IeBody(last.ie) + BEARER_TFT_SIZE,
                                      Cardinality(ResolvedSlots(last.map)))
                           - IeBody(last.ie)

\* C11 witness: a Bearer TFT written for a table whose slot 1 does not resolve,
\* between two slots that do.
C11_Witness ==
    /\ outcome = "ok"
    /\ last.op = "set_bearer_tft_ie"
    /\ last.map[1] = MissingFilter
    /\ {0, 2} \subseteq ResolvedSlots(last.map)
    /\ mem[IeBody(last.ie)] % 16 > Cardinality(ResolvedSlots(last.map))

\* the offsets of the components that lie from c to end, in order
RECURSIVE ReadComponents(_, _, _)
ReadComponents(memory, c, end) ==
    IF c >= end \/ WireComponentSize(memory[c]) = 0 THEN <<>>
    ELSE <<c>> \o ReadComponents(memory, c + WireComponentSize(memory[c]), end)

\* the offset of the k-th sub-record of the Bearer TFT at ie, k counting from 1
FilterOff(memory, ie, k) == ReadFiltersEnd(memory, IeBody(ie) + BEARER_TFT_SIZE, k - 1)

\* the components of the sub-record at cpf
FilterComponents(memory, cpf) ==
    ReadComponents(memory, cpf + CREATE_PKT_FILTER_SIZE,
                   cpf + CREATE_PKT_FILTER_SIZE + memory[FilterLengthOff(cpf)])

\* the components among comps whose type is one of types
OfTypes(memory, comps, types) ==
    SelectSeq(comps, LAMBDA c : memory[c] \in types)

\* what the claim asks of one side of a filter with the ports low and high,
\* ports being the components of either port type of that side
PortRule(memory, ports, single, range, low, high) ==
    IF low = high
    THEN /\ Len(ports) = 1
         /\ memory[ports[1]] = single
         /\ Load16(memory, ports[1] + COMPONENT_TYPE_SIZE) = low
    ELSE IF low = 0 /\ high = 65535
    THEN ports = <<>>
    ELSE /\ Len(ports) = 1
         /\ memory[ports[1]] = range
         /\ Load16(memory, ports[1] + COMPONENT_TYPE_SIZE) = low
         /\ Load16(memory, ports[1] + COMPONENT_TYPE_SIZE + PORT_SIZE) = high

\* the rule for both sides of the filter pf written at cpf
PortsAsRuled(memory, cpf, pf) ==
    /\ PortRule(memory,
                OfTypes(memory, FilterComponents(memory, cpf),
                        {SINGLE_REMOTE_PORT, REMOTE_PORT_RANGE}),
                SINGLE_REMOTE_PORT, REMOTE_PORT_RANGE,
                pf.remote_port_low, pf.remote_port_high)
    /\ PortRule(memory,
                OfTypes(memory, FilterComponents(memory, cpf),
                        {SINGLE_LOCAL_PORT, LOCAL_PORT_RANGE}),
                SINGLE_LOCAL_PORT, LOCAL_PORT_RANGE,
                pf.local_port_low, pf.local_port_high)

\* the filter the k-th resolved slot of map holds
FilterOfRecord(map, k) == PacketFilter(map[Ascending(ResolvedSlots(map))[k]])

\* C12: for each resolved filter and each side, equal ports (both zero included)
\* give exactly one single-port component and no range; ports 0 and 65535 give no
\* port component; any other ports give exactly one range component holding
\* port_low and port_high.  The ports are read as the uint16_t objects stored.
C12_PortComponentRule ==
    (outcome = "ok" /\ last.op = "set_bearer_tft_ie") =>
        \A k \in 1 .. Cardinality(ResolvedSlots(last.map)) :
            PortsAsRuled(mem, FilterOff(mem, last.ie, k), FilterOfRecord(last.map, k))

\* C12 witness: a filter written with remote ports 0..0 and local ports 1000..2000.
C12_Witness ==
    /\ outcome = "ok"
    /\ last.op = "set_bearer_tft_ie"
    /\ \E k \in 1 .. Cardinality(ResolvedSlots(last.map)) :
         /\ FilterOfRecord(last.map, k).remote_port_low = 0
         /\ FilterOfRecord(last.map, k).remote_port_high = 0
         /\ FilterOfRecord(last.map, k).local_port_low = 1000
         /\ FilterOfRecord(last.map, k).local_port_high = 2000

\* the component types the claim expects for one side's ports
ExpectedPortTypes(single, range, low, high) ==
    IF low = high THEN <<single>>
    ELSE IF low = 0 /\ high = 65535 THEN <<>>
    ELSE <<range>>

\* the component types the claim expects for the filter pf, in its fixed order
ExpectedTypes(pf) ==
    (IF pf.remote_ip_mask /= 0 THEN <<IPV4_REMOTE_ADDRESS>> ELSE <<>>)
        \o (IF pf.local_ip_mask /= 0 THEN <<IPV4_LOCAL_ADDRESS>> ELSE <<>>)
        \o (IF pf.proto_mask /= 0 THEN <<PROTOCOL_ID_NEXT_HEADER>> ELSE <<>>)
        \o ExpectedPortTypes(SINGLE_REMOTE_PORT, REMOTE_PORT_RANGE,
                             pf.remote_port_low, pf.remote_port_high)
        \o ExpectedPortTypes(SINGLE_LOCAL_PORT, LOCAL_PORT_RANGE,
                             pf.local_port_low, pf.local_port_high)

\* the types of the components at the offsets comps
TypesOf(memory, comps) == [k \in 1 .. Len(comps) |-> memory[comps[k]]]

\* the sizes of the components at the offsets comps, added up
RECURSIVE SizesOf(_, _)
SizesOf(memory, comps) ==
    IF comps = <<>> THEN 0
    ELSE WireComponentSize(memory[Head(comps)]) + SizesOf(memory, Tail(comps))

\* the address and the protocol a component holds are those of the filter
HoldsValue(memory, c, pf) ==
    /\ memory[c] = IPV4_REMOTE_ADDRESS =>
          \A b \in 1 .. IN_ADDR_SIZE : memory[c + b] = pf.remote_ip_addr[b]
    /\ memory[c] = IPV4_LOCAL_ADDRESS =>
          \A b \in 1 .. IN_ADDR_SIZE : memory[c + b] = pf.local_ip_addr[b]
    /\ memory[c] = PROTOCOL_ID_NEXT_HEADER => memory[c + 1] = pf.proto

\* the sub-record at cpf holds the components expected for pf, in order, and its
\* pkt_filter_length is the sum of their sizes
ComponentsInOrder(memory, cpf, pf) ==
    /\ TypesOf(memory, FilterComponents(memory, cpf)) = ExpectedTypes(pf)
    /\ memory[FilterLengthOff(cpf)] = SizesOf(memory, FilterComponents(memory, cpf))
    /\ \A k \in 1 .. Len(FilterComponents(memory, cpf)) :
          HoldsValue(memory, FilterComponents(memory, cpf)[k], pf)

\* C15: in the sub-record of each resolved filter the components are, in this
\* order, the remote address (when remote_ip_mask is not 0), the local address
\* (when local_ip_mask is not 0), the protocol (when proto_mask is not 0), the
\* remote port and the local port components, and pkt_filter_length is the sum
\* of the sizes of the components written.
C15_ComponentOrder ==
    (outcome = "ok" /\ last.op = "set_bearer_tft_ie") =>
        \A k \in 1 .. Cardinality(ResolvedSlots(last.map)) :
            ComponentsInOrder(mem, FilterOff(mem, last.ie, k),
                              FilterOfRecord(last.map, k))

\* C15 witness: a filter written with all five components.
C15_Witness ==
    /\ outcome = "ok"
    /\ last.op = "set_bearer_tft_ie"
    /\ \E k \in 1 .. Cardinality(ResolvedSlots(last.map)) :
         Len(FilterComponents(mem, FilterOff(mem, last.ie, k))) = 5

\* the two bytes at off read as a big-endian integer
BigEndian16(memory, off) == (256 * memory[off]) + memory[off + 1]

\* the header length and the length of every IE written are big-endian
LengthsBigEndian ==
    /\ BigEndian16(mem, GTPC_LENGTH_OFF) = initLen + RecordBytes(ies)
    /\ \A k \in 1 .. Len(ies) :
         ~IsGroup(ies[k]) => BigEndian16(mem, ies[k].off + IE_LENGTH_OFF) = ies[k].body

\* the tunnel endpoint id of the F-TEID just written is big-endian
TeidBigEndian ==
    (outcome = "ok" /\ last.op = "set_ipv4_fteid_ie") =>
        /\ BigEndian16(mem, IeBody(last.ie) + 1) = last.value[1]
        /\ BigEndian16(mem, IeBody(last.ie) + 3) = last.value[2]

\* the ports of the component at c are those of pf, big-endian
PortBigEndian(memory, c, pf) ==
    /\ memory[c] = SINGLE_REMOTE_PORT =>
          BigEndian16(memory, c + 1) = pf.remote_port_low
    /\ memory[c] = SINGLE_LOCAL_PORT =>
          BigEndian16(memory, c + 1) = pf.local_port_low
    /\ memory[c] = REMOTE_PORT_RANGE =>
          /\ BigEndian16(memory, c + 1) = pf.remote_port_low
          /\ BigEndian16(memory, c + 3) = pf.remote_port_high
    /\ memory[c] = LOCAL_PORT_RANGE =>
          /\ BigEndian16(memory, c + 1) = pf.local_port_low
          /\ BigEndian16(memory, c + 3) = pf.local_port_high

\* the ports of the Bearer TFT just written are big-endian
PortsBigEndian ==
    (outcome = "ok" /\ last.op = "set_bearer_tft_ie") =>
        \A k \in 1 .. Cardinality(ResolvedSlots(last.map)) :
            \A n \in 1 .. Len(FilterComponents(mem, FilterOff(mem, last.ie, k))) :
                PortBigEndian(mem, FilterComponents(mem, FilterOff(mem, last.ie, k))[n],
                              FilterOfRecord(last.map, k))

\* C13: on either host byte order, the header length, the IE lengths, the
\* F-TEID tunnel endpoint id and the TFT ports, given as host-order integers, are
\* laid out in the buffer in big-endian byte order.
C13_BigEndian == LengthsBigEndian /\ TeidBigEndian /\ PortsBigEndian

\* the fields that are not big-endian on a little-endian host are so on a
\* big-endian one
BigEndianOnBigEndianHost == host = "be" => (TeidBigEndian /\ PortsBigEndian)

\* C14: for every uint8_t ebi, set_ebi_ie writes an EBI IE whose one body byte is
\* ebi as given and advances header.length by 5, unless the message has no room
\* for the 5 bytes; the anomaly is signalled exactly when ebi & 0xF0 is not 0.
C14_EbiAnomaly ==
    last.op = "set_ebi_ie" =>
        /\ last.signal = (last.value >= 16)
        /\ IF last.pre + 5 <= MAX_GTPV2C_LENGTH
           THEN /\ outcome = "ok"
                /\ mem[last.ie] = IE_EBI
                /\ IeLength(mem, last.ie) = 1
                /\ mem[IeBody(last.ie)] = last.value
                /\ HeaderLength(mem) = last.pre + 5
                /\ last.ret = 5
           ELSE outcome = "panic"

\* C14 witness: the EBI 0x1F has been written and the anomaly signalled.
C14_Witness ==
    /\ outcome = "ok"
    /\ last.op = "set_ebi_ie"
    /\ last.value = 31
    /\ last.signal
    /\ mem[IeBody(last.ie)] = 31

\* an EBI with the upper nibble set met a message without room
EbiWithoutRoom ==
    /\ outcome = "panic"
    /\ last.op = "set_ebi_ie"
    /\ last.value >= 16

\* a function executed statement by statement leaves the memory and the outcome
\* that the function executed at once leaves
StepsAgree ==
    (run.pc = "done" \/ outcome = "panic") =>
        /\ run.fn = "set_next_ie" =>
              /\ mem = SetNextIe(Machine(run.start), run.type, run.instance,
                                 run.length).m.mem
              /\ (outcome = "panic")
                     = SetNextIe(Machine(run.start), run.type, run.instance,
                                 run.length).m.panic
        /\ run.fn = "set_bearer_tft_ie" =>
              /\ mem = SetBearerTftIeOp(Machine(run.start), run.instance,
                                        Bearer(run.map)).m.mem
              /\ (outcome = "panic")
                     = SetBearerTftIeOp(Machine(run.start), run.instance,
                                        Bearer(run.map)).m.panic

\* how many times the statement stmt has been executed in the running call
Executed(stmt) == Len(SelectSeq(run.log, LAMBDA x : x = stmt))

\* the running call has ended: it returned, or rte_panic ended the process
Ended == run.pc = "done" \/ outcome = "panic"

\* C16: in every execution of set_bearer_tft_ie, set_next_unsized_ie is called
\* once and set_ie_size once, after it, whatever the filter table (lookup misses
\* and empty tables included); between the two calls header.length stays as it
\* was, no IE is recorded and set_next_unsized_ie is not called again.
C16_OneClosePerOpen ==
    run.fn = "set_bearer_tft_ie" =>
        /\ Executed("close") <= Executed("open")
        /\ Executed("open") <= 1
        /\ Ended => (Executed("open") = 1 /\ Executed("close") = 1)
        /\ (Executed("open") = 1 /\ Executed("close") = 0) =>
              /\ HeaderLength(mem) = run.pre
              /\ run.ie = TeidU + run.pre
              /\ \A k \in 1 .. Len(ies) : ies[k].off < run.ie

\* C16 witness: set_bearer_tft_ie returned for a table with a slot that does
\* not resolve.
C16_Witness ==
    /\ run.fn = "set_bearer_tft_ie"
    /\ run.pc = "done"
    /\ outcome = "ok"
    /\ \E i \in Slots : run.map[i] = MissingFilter
    /\ Executed("close") = 1

\* the statement a has been executed whenever b has, and before it
Before(a, b) ==
    Executed(b) > 0 =>
        \E j, k \in 1 .. Len(run.log) : j < k /\ run.log[j] = a /\ run.log[k] = b

\* the statements of set_next_ie that store the fields of the IE
FieldStores == {"type", "instance", "length", "spare"}

\* C17 as claimed: set_next_ie computes the position, verifies the capacity,
\* writes the fields of the IE and then updates header.length.
C17_StepOrder ==
    run.fn = "set_next_ie" =>
        /\ Before("position", "check")
        /\ \A f \in FieldStores : Before("check", f)
        /\ Before("check", "header_length")
        /\ \A f \in FieldStores : Before(f, "header_length")

\* C17 as amended: set_next_ie computes the position, verifies the capacity,
\* updates header.length and then writes the fields of the IE; header.length
\* differs from its value at the call only after the capacity was verified, and
\* nothing is stored when the verification fails.
C17_CheckThenLengthThenFields ==
    run.fn = "set_next_ie" =>
        /\ Before("position", "check")
        /\ Before("check", "header_length")
        /\ \A f \in FieldStores : Before("header_length", f)
        /\ HeaderLength(mem) /= run.pre => Executed("check") = 1
        /\ outcome = "panic" => mem = run.start

\* C17 witness: header.length has been updated and no field of the IE stored.
C17_Witness ==
    /\ run.fn = "set_next_ie"
    /\ outcome = "ok"
    /\ HeaderLength(mem) = run.pre + run.length + IE_HEADER_SIZE
    /\ Executed("check") = 1
    /\ \A f \in FieldStores : Executed(f) = 0

\* the two bytes of the length field of the IE at ie
LengthField(ie) == {ie + IE_LENGTH_OFF, ie + IE_LENGTH_OFF + 1}

\* the machine b differs from a in the length field of the IE at ie at most
LengthFieldOnly(a, b, ie) ==
    /\ \A x \in Addr \ LengthField(ie) : b.mem[x] = a.mem[x]
    /\ b.wr \subseteq LengthField(ie)
    /\ HeaderLength(b.mem) = HeaderLength(a.mem)
    /\ ~b.panic

\* C18: add_grouped_ie_length stores to the length field of the parent only;
\* header.length, the type, instance and spare of the parent and every other
\* byte are as before, so header.length still counts every IE once.
C18_GroupedLengthFrame ==
    /\ last.op = "add_grouped_ie_length" =>
         /\ last.wr \subseteq LengthField(group)
         /\ HeaderLength(mem) = last.pre
         /\ HeaderLength(mem) = initLen + RecordBytes(ies)
         /\ mem[group] = IE_BEARER_CONTEXT
    /\ (outcome = "ok" /\ group /= NoIe) =>
         \A n \in {5, 300} :
             LengthFieldOnly(Machine(mem), AddGroupedIeLengthOp(Machine(mem), group, n),
                             group)

\* C18 witness: the value returned for the first child has been added to a
\* Bearer Context and header.length is what it was before the call.
C18_Witness ==
    /\ outcome = "ok"
    /\ last.op = "add_grouped_ie_length"
    /\ Len(children) = 1
    /\ last.size > 0
    /\ IeLength(mem, group) = last.size
    /\ HeaderLength(mem) = last.pre

====
